---- MODULE Spec2Model ----
(***************************************************************************)
(* Model of qr_code_labels/main.py: the code generator, the layout        *)
(* planner and the page packer of Generator.create_labels.                 *)
(*                                                                         *)
(* Lengths are integers.  A scale factor s stands for s / ScaleDenom, an   *)
(* inch value v for v / InchDenom inches.  Python lists are sequences      *)
(* (index 0 of the source is index 1 here); the insertion-ordered dict of  *)
(* generate_codes is the sequence of its keys.  A sealed page is kept as   *)
(* the rows of codes handed to _save_page: the cell (y, x) of the source   *)
(* is pages[p][y + 1][x + 1].                                              *)
(***************************************************************************)
EXTENDS Integers, Sequences, FiniteSets, TLC

\* ------------------------------------------------------------- bounds ----
\* Number of characters of one code in the model (CODE_SIZE of the source is 5).
CODE_SIZE == 1
\* Largest requested number of unique codes.
MaxCount == 3
\* Largest requested number of copies per code.
MaxRepeat == 7
\* Scale factors are multiples of 1 / ScaleDenom.
ScaleDenom == 1000
\* Largest scale factor of the layout specification, in 1 / ScaleDenom.
MaxScale == 11000

\* ---------------------------------------------------------- constants ----
DPI == 300
\* Inch values are kept in halves of an inch.
InchDenom == 2
PAGE_MARGIN_IN == 1

Dimensions2D(w, h) == [width |-> w, height |-> h]

\* Dimensions2D.scale by the factor num / den
Dim_scale(d, num, den) ==
    Dimensions2D((d.width * num) \div den, (d.height * num) \div den)

\* Dimensions2D.resize
Dim_resize(d, diff) == Dimensions2D(d.width + diff, d.height + diff)

LETTER_DIM_IN == Dimensions2D(17, 22)
LETTER_DIM_PX == Dim_scale(LETTER_DIM_IN, DPI, InchDenom)
PAGE_DIM == Dim_scale(LETTER_DIM_IN, DPI, InchDenom)
PAGE_MARGIN_PX == (PAGE_MARGIN_IN * DPI) \div InchDenom
PAGE_WITHOUT_MARGINS_PX == Dim_resize(PAGE_DIM, -2 * PAGE_MARGIN_PX)

\* int(x) of Python for the rational num / den, den > 0: truncation toward zero
\* (the product scale * DPI is taken exactly, without the rounding of floats)
IntTrunc(num, den) ==
    IF num >= 0 THEN num \div den ELSE -((-num) \div den)

\* ----------------------------------------------------------- alphabet ----
\* string.ascii_uppercase, cut down to the letters around the removed one
ascii_uppercase == <<"P", "Q">>
\* string.digits, cut down to one digit
digits == <<"0">>

\* str.replace(old, "") for a one-character old
Replace(s, old) == SelectSeq(s, LAMBDA ch : ch # old)

ALPHANUM_UPPER == Replace(ascii_uppercase \o digits, "Q")

Range(s) == {s[i] : i \in 1..Len(s)}

\* the values generate_code() can return: CODE_SIZE choices from ALPHANUM_UPPER
CodeSpace == [1..CODE_SIZE -> Range(ALPHANUM_UPPER)]

\* DictSet with a list in place of the dict: a drawn duplicate is kept
DictSet_List(d, c) == Append(d, c)

\* codes[c] = True on the dict kept as the sequence of its keys
DictSet(d, c) == IF c \in Range(d) THEN d ELSE Append(d, c)

\* -------------------------------------------------------------- state ----
VARIABLES
    count, repeat, scale, group_codes, fill_group, include_cut_lines,
    qr_size_px, grid_dim, canvas_dim, x_offset, y_offset, pages,
    codes, gen_i, eff_repeat, row, col, page_codes, code_i, copy_i, pc

config == <<count, repeat, scale, group_codes, fill_group, include_cut_lines>>
layout == <<grid_dim, canvas_dim, x_offset, y_offset>>
packer == <<eff_repeat, row, col, page_codes, code_i, copy_i>>
vars == <<config, qr_size_px, layout, pages, codes, gen_i, packer, pc>>

None == [width |-> -1, height |-> -1]

\* Scale factors of the packing specification: the grids 5x6, 4x6, 2x2, 1x2,
\* 1x1 without cut lines, and two factors whose label exceeds the printable
\* area on one and on both axes.
PackScales == {(3 * ScaleDenom) \div 2, (5 * ScaleDenom) \div 3 + 1,
               (15 * ScaleDenom) \div 4, 5 * ScaleDenom,
               (15 * ScaleDenom) \div 2, 8 * ScaleDenom, MaxScale}

\* Generator.__init__ behind the validation of cli
InitWith(scales, counts, repeats) ==
    /\ count \in counts
    /\ repeat \in repeats
    /\ scale \in scales
    /\ group_codes \in BOOLEAN
    /\ fill_group \in BOOLEAN
    /\ include_cut_lines \in BOOLEAN
    /\ qr_size_px = IntTrunc(scale * DPI, ScaleDenom)
    /\ grid_dim = None
    /\ canvas_dim = None
    /\ x_offset = 0
    /\ y_offset = 0
    /\ pages = <<>>
    /\ codes = <<>>
    /\ gen_i = 0
    /\ eff_repeat = 0
    /\ row = 0
    /\ col = 0
    /\ page_codes = <<>>
    /\ code_i = 0
    /\ copy_i = 0
    /\ pc = "generate_codes"

Init == InitWith(PackScales, 1..MaxCount, 1..MaxRepeat)

\* ---------------------------------------------------- generate_codes ----
\* one iteration of the dict comprehension of line 112
GenComprehension ==
    /\ pc = "generate_codes"
    /\ gen_i < count
    /\ \E c \in CodeSpace : codes' = DictSet(codes, c)
    /\ gen_i' = gen_i + 1
    /\ UNCHANGED <<config, qr_size_px, layout, pages, packer, pc>>

\* the comprehension is exhausted: enter the while loop of line 114
GenComprehensionDone ==
    /\ pc = "generate_codes"
    /\ gen_i = count
    /\ pc' = "generate_while"
    /\ UNCHANGED <<config, qr_size_px, layout, pages, codes, gen_i, packer>>

\* one iteration of the while loop of lines 114-115
GenWhile ==
    /\ pc = "generate_while"
    /\ Len(codes) < count
    /\ \E c \in CodeSpace : codes' = DictSet(codes, c)
    /\ UNCHANGED <<config, qr_size_px, layout, pages, gen_i, packer, pc>>

\* line 116: return list(codes.keys())
GenReturn ==
    /\ pc = "generate_while"
    /\ ~(Len(codes) < count)
    /\ pc' = "generate_sizes"
    /\ UNCHANGED <<config, qr_size_px, layout, pages, codes, gen_i, packer>>

\* ----------------------------------------------------- layout planner ----
\* line 283: self._qr_size_px = int(self.scale * DPI)
GenerateSizes ==
    /\ pc = "generate_sizes"
    /\ qr_size_px' = IntTrunc(scale * DPI, ScaleDenom)
    /\ pc' = "calculate_grid_dim"
    /\ UNCHANGED <<config, layout, pages, codes, gen_i, packer>>

\* GridDim without the pixel taken off the page for the closing cut line
GridDim_NoTrim(qr_size_px_, cut) ==
    LET qr_size == IF cut THEN qr_size_px_ + 1 ELSE qr_size_px_
        page_size == PAGE_WITHOUT_MARGINS_PX
    IN  Dimensions2D(page_size.width \div qr_size, page_size.height \div qr_size)

\* GridDim without the pixel added to the label for the cut line
GridDim_NoStroke(qr_size_px_, cut) ==
    LET qr_size == qr_size_px_
        page_size == IF cut THEN Dim_resize(PAGE_WITHOUT_MARGINS_PX, -1)
                            ELSE PAGE_WITHOUT_MARGINS_PX
    IN  Dimensions2D(page_size.width \div qr_size, page_size.height \div qr_size)

\* the value _calculate_grid_dim stores in self._grid_dim
GridDim(qr_size_px_, cut) ==
    LET qr_size == IF cut THEN qr_size_px_ + 1 ELSE qr_size_px_
        page_size == IF cut THEN Dim_resize(PAGE_WITHOUT_MARGINS_PX, -1)
                            ELSE PAGE_WITHOUT_MARGINS_PX
    IN  Dimensions2D(page_size.width \div qr_size, page_size.height \div qr_size)

\* the value _calculate_canvas_dim stores in self._canvas_dim
CanvasDim(grid, qr_size_px_, cut) ==
    IF cut THEN Dim_resize(Dim_scale(grid, qr_size_px_ + 1, 1), 1)
           ELSE Dim_scale(grid, qr_size_px_, 1)

\* one axis of _calculate_offsets
Offset(letter, canvas) == IntTrunc(letter - canvas, 2)

CalculateGridDim ==
    /\ pc = "calculate_grid_dim"
    /\ grid_dim' = GridDim(qr_size_px, include_cut_lines)
    /\ pc' = "calculate_canvas_dim"
    /\ UNCHANGED <<config, qr_size_px, canvas_dim, x_offset, y_offset, pages,
                   codes, gen_i, packer>>

CalculateCanvasDim ==
    /\ pc = "calculate_canvas_dim"
    /\ canvas_dim' = CanvasDim(grid_dim, qr_size_px, include_cut_lines)
    /\ pc' = "calculate_offsets"
    /\ UNCHANGED <<config, qr_size_px, grid_dim, x_offset, y_offset, pages,
                   codes, gen_i, packer>>

CalculateOffsets ==
    /\ pc = "calculate_offsets"
    /\ x_offset' = Offset(LETTER_DIM_PX.width, canvas_dim.width)
    /\ y_offset' = Offset(LETTER_DIM_PX.height, canvas_dim.height)
    /\ pc' = "effective_repeat"
    /\ UNCHANGED <<config, qr_size_px, grid_dim, canvas_dim, pages,
                   codes, gen_i, packer>>

\* -------------------------------------------------------- page packer ----
\* EffectiveRepeat rounding repeat // width up even when it is exact
EffectiveRepeat_RoundOver(repeat_, width, group, fill) ==
    IF group /\ fill THEN (repeat_ \div width + 1) * width
                     ELSE repeat_

\* lines 291-295 for a width that does not raise
EffectiveRepeat(repeat_, width, group, fill) ==
    IF group /\ fill THEN ((repeat_ - 1) \div width + 1) * width
                     ELSE repeat_

\* lines 291-302
ComputeRepeat ==
    /\ pc = "effective_repeat"
    /\ ~(group_codes /\ fill_group /\ grid_dim.width = 0)
    /\ eff_repeat' = EffectiveRepeat(repeat, grid_dim.width, group_codes, fill_group)
    /\ row' = 0
    /\ col' = 0
    /\ page_codes' = <<>>
    /\ pc' = "for_code"
    /\ UNCHANGED <<config, qr_size_px, layout, pages, codes, gen_i, code_i, copy_i>>

\* line 293 with width = 0: the integer division raises ZeroDivisionError,
\* which cli does not catch
ComputeRepeatRaise ==
    /\ pc = "effective_repeat"
    /\ group_codes /\ fill_group /\ grid_dim.width = 0
    /\ pc' = "ZeroDivisionError"
    /\ UNCHANGED <<config, qr_size_px, layout, pages, codes, gen_i, packer>>

\* _save_page: an empty page is skipped, any other is appended to self._pages
SavePage(pages_, page_codes_) ==
    IF page_codes_ = <<>> THEN pages_ ELSE Append(pages_, page_codes_)

\* ForCode without the row break of grouping
ForCode_NoBreak ==
    /\ pc = "for_code"
    /\ code_i < Len(codes)
    /\ code_i' = code_i + 1
    /\ UNCHANGED <<row, col>>
    /\ copy_i' = 0
    /\ pc' = "for_repeat"
    /\ UNCHANGED <<config, qr_size_px, layout, pages, codes, gen_i,
                   eff_repeat, page_codes>>

\* lines 303-306 (and 307-336, which build the label of the code): the next
\* code of the for loop, with the row break of grouping
ForCode ==
    /\ pc = "for_code"
    /\ code_i < Len(codes)
    /\ code_i' = code_i + 1
    /\ IF group_codes /\ page_codes # <<>>
         THEN row' = row + 1 /\ col' = 0
         ELSE UNCHANGED <<row, col>>
    /\ copy_i' = 0
    /\ pc' = "for_repeat"
    /\ UNCHANGED <<config, qr_size_px, layout, pages, codes, gen_i,
                   eff_repeat, page_codes>>

\* BeforePlace starting a fresh page without handing the full one to _save_page
BeforePlace_NoSave(row_, col_, page_codes_, pages_, grid) ==
    LET wrap   == col_ = grid.width
        row1   == IF wrap THEN row_ + 1 ELSE row_
        col1   == IF wrap THEN 0 ELSE col_
        seal   == row1 = grid.height
        pcs1   == IF seal THEN <<>> ELSE page_codes_
        row2   == IF seal THEN 0 ELSE row1
        pcs2   == IF row2 = Len(pcs1) THEN Append(pcs1, <<>>) ELSE pcs1
    IN  [row |-> row2, col |-> col1, page_codes |-> pcs2, pages |-> pages_]

\* BeforePlace sealing the page one row late
BeforePlace_LateSeal(row_, col_, page_codes_, pages_, grid) ==
    LET wrap   == col_ = grid.width
        row1   == IF wrap THEN row_ + 1 ELSE row_
        col1   == IF wrap THEN 0 ELSE col_
        seal   == row1 > grid.height
        pages1 == IF seal THEN SavePage(pages_, page_codes_) ELSE pages_
        pcs1   == IF seal THEN <<>> ELSE page_codes_
        row2   == IF seal THEN 0 ELSE row1
        pcs2   == IF row2 = Len(pcs1) THEN Append(pcs1, <<>>) ELSE pcs1
    IN  [row |-> row2, col |-> col1, page_codes |-> pcs2, pages |-> pages1]

\* lines 339-347: the cursor and the page after the checks that precede the
\* placement of one label
BeforePlace(row_, col_, page_codes_, pages_, grid) ==
    LET wrap   == col_ = grid.width
        row1   == IF wrap THEN row_ + 1 ELSE row_
        col1   == IF wrap THEN 0 ELSE col_
        seal   == row1 = grid.height
        pages1 == IF seal THEN SavePage(pages_, page_codes_) ELSE pages_
        pcs1   == IF seal THEN <<>> ELSE page_codes_
        row2   == IF seal THEN 0 ELSE row1
        pcs2   == IF row2 = Len(pcs1) THEN Append(pcs1, <<>>) ELSE pcs1
    IN  [row |-> row2, col |-> col1, page_codes |-> pcs2, pages |-> pages1]

\* lines 338-349: one iteration of the repeat loop
PlaceLabel ==
    /\ pc = "for_repeat"
    /\ copy_i < eff_repeat
    /\ LET b == BeforePlace(row, col, page_codes, pages, grid_dim)
       IN  /\ b.row < Len(b.page_codes)
           /\ page_codes' = [b.page_codes EXCEPT ![b.row + 1] = Append(@, codes[code_i])]
           /\ row' = b.row
           /\ col' = b.col + 1
           /\ pages' = b.pages
    /\ copy_i' = copy_i + 1
    /\ UNCHANGED <<config, qr_size_px, layout, codes, gen_i, eff_repeat, code_i, pc>>

\* line 348 with row >= len(page_codes): IndexError, which cli does not catch
PlaceLabelRaise ==
    /\ pc = "for_repeat"
    /\ copy_i < eff_repeat
    /\ LET b == BeforePlace(row, col, page_codes, pages, grid_dim)
       IN  /\ ~(b.row < Len(b.page_codes))
           /\ page_codes' = b.page_codes
           /\ row' = b.row
           /\ col' = b.col
           /\ pages' = b.pages
    /\ pc' = "IndexError"
    /\ UNCHANGED <<config, qr_size_px, layout, codes, gen_i, eff_repeat, code_i, copy_i>>

\* the repeat loop of one code is exhausted
RepeatDone ==
    /\ pc = "for_repeat"
    /\ copy_i = eff_repeat
    /\ pc' = "for_code"
    /\ UNCHANGED <<config, qr_size_px, layout, pages, codes, gen_i, packer>>

\* lines 350-352: the codes are exhausted, the last page is saved and
\* _save_pdf exports self._pages and the codes
FinalSave ==
    /\ pc = "for_code"
    /\ code_i = Len(codes)
    /\ pages' = SavePage(pages, page_codes)
    /\ pc' = "done"
    /\ UNCHANGED <<config, qr_size_px, layout, codes, gen_i, packer>>

\* ----------------------------------------------------- specifications ----
Next ==
    \/ GenComprehension
    \/ GenComprehensionDone
    \/ GenWhile
    \/ GenReturn
    \/ GenerateSizes
    \/ CalculateGridDim
    \/ CalculateCanvasDim
    \/ CalculateOffsets
    \/ ComputeRepeat
    \/ ComputeRepeatRaise
    \/ ForCode
    \/ PlaceLabel
    \/ PlaceLabelRaise
    \/ RepeatDone
    \/ FinalSave

Spec == Init /\ [][Next]_vars

\* The layout planner alone, over every scale factor from 1.0 to MaxScale:
\* create_labels when generate_codes has returned the one code of a run with
\* count = 1.
InitGrid ==
    /\ count = 1
    /\ repeat = 1
    /\ scale \in ScaleDenom..MaxScale
    /\ group_codes = FALSE
    /\ fill_group = FALSE
    /\ include_cut_lines \in BOOLEAN
    /\ qr_size_px = IntTrunc(scale * DPI, ScaleDenom)
    /\ grid_dim = None
    /\ canvas_dim = None
    /\ x_offset = 0
    /\ y_offset = 0
    /\ pages = <<>>
    /\ \E c \in CodeSpace : codes = <<c>>
    /\ gen_i = 1
    /\ eff_repeat = 0
    /\ row = 0
    /\ col = 0
    /\ page_codes = <<>>
    /\ code_i = 0
    /\ copy_i = 0
    /\ pc = "generate_sizes"

NextGrid ==
    \/ GenerateSizes
    \/ CalculateGridDim
    \/ CalculateCanvasDim
    \/ CalculateOffsets

SpecGrid == InitGrid /\ [][NextGrid]_vars

\* ------------------------------------------------- vocabulary of claims ----
\* the grid has been computed and has at least one column and one row
GridOK == grid_dim.width >= 1 /\ grid_dim.height >= 1

InPacking == pc \in {"for_code", "for_repeat", "done"}

\* the pages that hold labels: the sealed ones and, until it is sealed by the
\* final _save_page, the page being filled
Placed == IF pc = "done" THEN pages ELSE pages \o <<page_codes>>

RECURSIVE SumLens(_)
SumLens(rows) == IF rows = <<>> THEN 0 ELSE Len(Head(rows)) + SumLens(Tail(rows))

RECURSIVE TotalLabels(_)
TotalLabels(ps) == IF ps = <<>> THEN 0 ELSE SumLens(Head(ps)) + TotalLabels(Tail(ps))

\* the cells (page, row, column), counted from 1, of a sequence of pages
Cells(ps) ==
    UNION {UNION {{<<p, y, x>> : x \in 1..Len(ps[p][y])} : y \in 1..Len(ps[p])} :
              p \in 1..Len(ps)}

\* number of copies of code c on the pages ps
Copies(c, ps) == Cardinality({z \in Cells(ps) : ps[z[1]][z[2]][z[3]] = c})

\* ceil(a / b) for a >= 0, b >= 1, by its defining inequalities
CeilDiv(a, b) == CHOOSE k \in 0..a : k * b >= a /\ (k = 0 \/ (k - 1) * b < a)

\* n = floor(a / b) for b >= 1, by its defining inequalities
IsFloor(n, a, b) == n * b <= a /\ a < (n + 1) * b

\* the effective repeat count the documentation of --fill describes
DocRepeat ==
    IF group_codes /\ fill_group
      THEN CeilDiv(repeat, grid_dim.width) * grid_dim.width
      ELSE repeat

\* ------------------------------------------------------------- claims ----
\* C1: packing conservation.  On a grid of at least one column and one row,
\* when the codes are exhausted and the final page has been handed to
\* _save_page, the sealed pages hold count x effective repeat labels in total;
\* and at every step of the packing loop the sealed pages and the page being
\* filled hold exactly the labels placed so far, so none is lost or duplicated
\* at a row wrap, a page seal or a group break.
C1_PackingConservation ==
    /\ (pc = "done" /\ GridOK) => TotalLabels(pages) = count * DocRepeat
    /\ (pc = "for_repeat" /\ GridOK) =>
          TotalLabels(Placed) = (code_i - 1) * DocRepeat + copy_i

\* a finished run with grouping that sealed a page before its last one
C1_Witness ==
    /\ pc = "done" /\ GridOK /\ group_codes /\ count >= 2
    /\ Len(pages) >= 2
    /\ TotalLabels(pages) = count * DocRepeat

\* C2: page capacity.  For every validated configuration, at every step of the
\* packing loop and in every sealed page no row holds more than `columns`
\* labels and no page more than `rows` rows.
C2_PageCapacity ==
    InPacking =>
       \A p \in 1..Len(Placed) :
          /\ Len(Placed[p]) <= grid_dim.height
          /\ \A y \in 1..Len(Placed[p]) : Len(Placed[p][y]) <= grid_dim.width

\* C3: grouping invariant.  With grouping on a grid of at least 1x1 every row
\* holds copies of at most one distinct code, and the first copy of a code is
\* the only label of its row when it has been placed (column 0 of a row that
\* held no label).
C3_GroupingInvariant ==
    (group_codes /\ InPacking /\ GridOK) =>
       /\ \A p \in 1..Len(Placed) : \A y \in 1..Len(Placed[p]) :
             Cardinality(Range(Placed[p][y])) <= 1
       /\ (pc = "for_repeat" /\ copy_i = 1) =>
             /\ col = 1
             /\ page_codes[row + 1] = <<codes[code_i]>>

\* the first copy of the second code goes to a fresh page, the previous code
\* having ended at the last cell of a page
C3_Witness ==
    /\ group_codes /\ GridOK /\ pc = "for_repeat" /\ copy_i = 1 /\ code_i = 2
    /\ Len(pages) >= 1
    /\ row = 0
    /\ LET last == pages[Len(pages)]
       IN  /\ Len(last) = grid_dim.height
           /\ Len(last[Len(last)]) = grid_dim.width

\* C4: effective repeat.  In a finished run on a grid of w >= 1 columns every
\* code is placed ceil(repeat / w) * w times when grouping and fill are both
\* on, and `repeat` times otherwise.
C4_EffectiveRepeat ==
    (pc = "done" /\ GridOK) =>
       \A i \in 1..Len(codes) :
          Copies(codes[i], pages) =
             IF group_codes /\ fill_group
               THEN CeilDiv(repeat, grid_dim.width) * grid_dim.width
               ELSE repeat

\* w = 5 and repeat = 7 give 10 copies
C4_Witness ==
    /\ pc = "done" /\ group_codes /\ fill_group
    /\ grid_dim.width = 5 /\ repeat = 7
    /\ Copies(codes[1], pages) = 10

\* C5: dense row-major packing.  Without grouping, on a grid of c >= 1 columns
\* and r >= 1 rows, the k-th label placed (from 0, the copies of one code
\* consecutive, the codes in generation order) is on page k div (c*r), row
\* (k mod c*r) div c, column k mod c: every cell in use holds the code of its
\* rank, the cells in use are those of the ranks below the number of labels
\* placed, every sealed page but the last holds c*r labels and the last one
\* the remainder.
C5_CellRank(z) ==
    (z[1] - 1) * (grid_dim.width * grid_dim.height)
        + (z[2] - 1) * grid_dim.width + (z[3] - 1)

C5_DensePacking ==
    (~group_codes /\ InPacking /\ GridOK) =>
       LET c == grid_dim.width
           r == grid_dim.height
           n == TotalLabels(Placed)
       IN  /\ \A z \in Cells(Placed) :
                /\ z[2] <= r /\ z[3] <= c
                /\ C5_CellRank(z) < n
                /\ Placed[z[1]][z[2]][z[3]] = codes[C5_CellRank(z) \div repeat + 1]
           /\ \A p \in 1..Len(pages) :
                (p < Len(pages) \/ pc # "done") => SumLens(pages[p]) = c * r
           /\ pc = "done" =>
                /\ n = count * repeat
                /\ Len(pages) = CeilDiv(n, c * r)
                /\ SumLens(pages[Len(pages)]) = n - (Len(pages) - 1) * (c * r)

\* one code, five copies, a 2x2 grid: two pages with 4 labels and 1 label
C5_Witness ==
    /\ ~group_codes /\ pc = "done"
    /\ grid_dim = Dimensions2D(2, 2) /\ count = 1 /\ repeat = 5
    /\ Len(pages) = 2
    /\ SumLens(pages[1]) = 4
    /\ pages[2] = <<<<codes[1]>>>>

\* C6: uniqueness.  When generate_codes has returned, it has returned exactly
\* `count` pairwise distinct codes, each of CODE_SIZE characters that are
\* uppercase letters or digits other than "Q".
C6_Returned == pc \notin {"generate_codes", "generate_while"}

C6_Uniqueness ==
    C6_Returned =>
       /\ Len(codes) = count
       /\ \A i, j \in 1..Len(codes) : i # j => codes[i] # codes[j]
       /\ \A i \in 1..Len(codes) :
             /\ Len(codes[i]) = CODE_SIZE
             /\ \A n \in 1..Len(codes[i]) :
                   /\ codes[i][n] \in Range(ascii_uppercase) \cup Range(digits)
                   /\ codes[i][n] # "Q"

\* generate_codes has returned two codes
C6_Witness ==
    /\ pc = "generate_sizes" /\ count = 2
    /\ Len(codes) = 2 /\ codes[1] # codes[2]

\* the label of the run exceeds the printable area on an axis
ZeroCapacity ==
    LET g == GridDim(IntTrunc(scale * DPI, ScaleDenom), include_cut_lines)
    IN  g.width = 0 \/ g.height = 0

\* C7: zero-capacity configuration error.  A run whose grid has zero columns
\* or zero rows aborts before any code is generated, any label is packed or
\* any page is rendered, and never enters the packing loop.
C7_ZeroCapacityError ==
    ZeroCapacity =>
       /\ codes = <<>>
       /\ page_codes = <<>>
       /\ pages = <<>>
       /\ pc \notin {"for_code", "for_repeat", "done"}

\* number of distinct codes generate_code can return
SpaceSize == Cardinality(CodeSpace)

\* C8: exhaustion fail-fast.  When the requested count exceeds the size of the
\* code space, generate_codes does not stay in its rejection-sampling loop
\* with every code of the space already drawn, where no draw can add a code.
C8_ExhaustionFailFast ==
    ~(pc = "generate_while" /\ count > SpaceSize /\ Len(codes) = SpaceSize)

\* the sizes the claims on the layout are stated in
Footprint == IntTrunc(scale * DPI, ScaleDenom) + (IF include_cut_lines THEN 1 ELSE 0)

Printable ==
    Dimensions2D(LETTER_DIM_PX.width - 2 * PAGE_MARGIN_PX,
                 LETTER_DIM_PX.height - 2 * PAGE_MARGIN_PX)

LayoutDone == pc = "effective_repeat"

\* C9: no layout overflow.  For every scale >= 1.0 and both settings of the
\* cut-line flag the capacity is a pair of non-negative integers, the canvas
\* (capacity x footprint, plus one pixel per axis with cut lines) does not
\* exceed the printable area and the offsets are not below the page margin.
C9_NoLayoutOverflow ==
    LayoutDone =>
       LET extra == IF include_cut_lines THEN 1 ELSE 0
       IN  /\ grid_dim.width \in Nat /\ grid_dim.height \in Nat
           /\ canvas_dim.width = grid_dim.width * Footprint + extra
           /\ canvas_dim.height = grid_dim.height * Footprint + extra
           /\ canvas_dim.width <= Printable.width
           /\ canvas_dim.height <= Printable.height
           /\ x_offset >= PAGE_MARGIN_PX
           /\ y_offset >= PAGE_MARGIN_PX

\* cut lines, and a canvas that fills the printable width to the pixel
C9_Witness ==
    /\ LayoutDone /\ include_cut_lines
    /\ grid_dim.width >= 1
    /\ canvas_dim.width = Printable.width
    /\ x_offset = PAGE_MARGIN_PX

\* C10 as stated: on each axis the capacity is floor(printable / footprint),
\* the footprint being int(scale x DPI), plus one with cut lines.
C10_GridCapacityFormula ==
    LayoutDone =>
       /\ IsFloor(grid_dim.width, Printable.width, Footprint)
       /\ IsFloor(grid_dim.height, Printable.height, Footprint)

\* C10 amended: on each axis the capacity is floor(printable / footprint)
\* without cut lines and floor((printable - 1) / footprint) with cut lines,
\* the footprint being int(scale x DPI), plus one with cut lines.
C10_GridCapacityAmended ==
    LayoutDone =>
       LET trim == IF include_cut_lines THEN 1 ELSE 0
       IN  /\ Footprint * ScaleDenom <= scale * DPI + trim * ScaleDenom
           /\ scale * DPI + trim * ScaleDenom < (Footprint + 1) * ScaleDenom
           /\ IsFloor(grid_dim.width, Printable.width - trim, Footprint)
           /\ IsFloor(grid_dim.height, Printable.height - trim, Footprint)

\* cut lines and a footprint that divides the printable width: one column
\* fewer than the quotient
C10_Witness ==
    /\ LayoutDone /\ include_cut_lines
    /\ Printable.width % Footprint = 0
    /\ grid_dim.width = Printable.width \div Footprint - 1
    /\ grid_dim.width >= 1

====
